---- MODULE Spec2Model ----
(***************************************************************************)
(* LearnLynk: row-level security on leads (backend/rls_policies.sql), the  *)
(* create-task edge function (backend/edge-functions/create-task/index.ts) *)
(* and the "today" dashboard (frontend/pages/dashboard/today.tsx), all     *)
(* three working on one Postgres database.                                 *)
(***************************************************************************)
EXTENDS Integers, Sequences, FiniteSets, Bags, TLC

VARIABLES
    \* ---- database: leads side
    leads,        \* public.leads: set of rows [tenant_id, owner_id, team_id]
    user_teams,   \* user_teams: set of rows [user_id, team_id]
    stmt,         \* the last SQL statement run on leads, with its session and result
    \* ---- database: tasks side
    tasks,        \* public.tasks: sequence of rows, the row's id is its index
    createdBy,    \* history: per task, the tenant of the principal whose request inserted it
    writes,       \* history: per task, how many UPDATE statements have rewritten the row
    \* ---- wall clock (milliseconds, scaled)
    clock,
    \* ---- create-task edge function: one invocation of the serve handler
    pc,           \* "idle" | "lookup" | "insert"
    frame,        \* the handler's locals while it awaits the database
    req,          \* the request being (or last) handled
    resp,         \* the response to req, NoResp until it is sent
    \* ---- today dashboard (one mounted TodayDashboard component)
    shown,        \* React state `tasks`: ids of the rows held, in order
    loading,      \* React state `loading`
    error,        \* React state `error` (TRUE: "Failed to load tasks")
    net,          \* bag of the component's supabase calls in flight
    mounted,      \* the component's mount effect has run
    reverted      \* history: a failed update's re-query has been applied

leadVars == <<leads, user_teams, stmt>>
taskVars == <<tasks, createdBy, writes>>
edgeVars == <<pc, frame, req, resp>>
dashVars == <<shown, loading, error, net, mounted, reverted>>
vars == <<leads, user_teams, stmt, tasks, createdBy, writes, clock,
          pc, frame, req, resp, shown, loading, error, net, mounted, reverted>>

(***************************************************************************)
(* Bounds of the model.                                                    *)
(***************************************************************************)
MaxLeads == 1
MaxTasks == 1      \* rows the edge function may insert
MaxTime == 3       \* last instant of the clock
DayLen == 3        \* instants in a day
MaxInflight == 1   \* dashboard calls in flight at once
MaxWrites == 2     \* the writes counter saturates here
DashTasks == 2     \* rows in the table the dashboard specification starts from
DashInflight == 2  \* dashboard calls in flight at once, dashboard specification

NULL == "NULL"
Tenants == {"T1", "T2"}
Users == {"u1", "u2"}
Teams == {"g1", "g2"}

(***************************************************************************)
(* SQL three-valued logic: "t", "f", "u" (unknown, from a NULL operand).   *)
(* A policy admits a row only when its expression is "t".                  *)
(***************************************************************************)
Eq3(a, b) == IF a = NULL \/ b = NULL THEN "u" ELSE IF a = b THEN "t" ELSE "f"
And3(a, b) == IF a = "f" \/ b = "f" THEN "f" ELSE IF a = "t" /\ b = "t" THEN "t" ELSE "u"
Or3(a, b) == IF a = "t" \/ b = "t" THEN "t" ELSE IF a = "f" /\ b = "f" THEN "f" ELSE "u"
In3(a, S) == IF a = NULL THEN "u" ELSE IF a \in S THEN "t" ELSE "f"
Bool3(b) == IF b THEN "t" ELSE "f"

\* A session: the JWT's claims, auth.uid() and auth.role().
JwtRoles == {"admin", "counselor", NULL}
\* auth.uid() is the JWT's sub: a user for an authenticated session, NULL for anon.
Sessions ==
    [tenant_id : Tenants, role : JwtRoles, uid : Users, auth_role : {"authenticated"}]
    \cup [tenant_id : Tenants, role : JwtRoles, uid : {NULL}, auth_role : {"anon"}]
LeadRows == [tenant_id : Tenants, owner_id : Users, team_id : Teams \cup {NULL}]
Memberships == [user_id : Users, team_id : Teams]

\* exists (select 1 from user_teams ut where ut.user_id = auth.uid() and ut.team_id = leads.team_id)
TeamExists(jwt, row) ==
    \E ut \in user_teams :
        And3(Eq3(ut.user_id, jwt.uid), Eq3(ut.team_id, row.team_id)) = "t"

\* Mutant: the tenant test guards only the counselor branches, not the admin one.
leads_select_policy_AdminFirst(jwt, row) ==
    Or3(Eq3(jwt.role, "admin"),
        And3(Eq3(row.tenant_id, jwt.tenant_id),
             Or3(Eq3(row.owner_id, jwt.uid), Bool3(TeamExists(jwt, row))))) = "t"

\* Mutant: a lead without a team counts as visible to every team.
leads_select_policy_NullTeam(jwt, row) ==
    And3(Eq3(row.tenant_id, jwt.tenant_id),
         Or3(Eq3(jwt.role, "admin"),
             Or3(Eq3(row.owner_id, jwt.uid),
                 Bool3(row.team_id = NULL \/ TeamExists(jwt, row))))) = "t"

leads_select_policy(jwt, row) ==
    And3(Eq3(row.tenant_id, jwt.tenant_id),
         Or3(Eq3(jwt.role, "admin"),
             Or3(Eq3(row.owner_id, jwt.uid),
                 Bool3(TeamExists(jwt, row))))) = "t"

leads_insert_policy(jwt, row) ==
    And3(Eq3(jwt.auth_role, "authenticated"),
         And3(Eq3(row.tenant_id, jwt.tenant_id),
              In3(jwt.role, {"admin", "counselor"}))) = "t"

NoStmt == [op |-> "none", jwt |-> NULL, rows |-> {}, row |-> NULL, ok |-> FALSE]

\* select * from leads, under row level security
SelectLeads(jwt) ==
    /\ stmt' = [op |-> "select", jwt |-> jwt,
                rows |-> {r \in leads : leads_select_policy(jwt, r)},
                row |-> NULL, ok |-> TRUE]
    /\ UNCHANGED <<leads, user_teams>>

\* insert into leads values (row), under row level security
InsertLead(jwt, row) ==
    /\ row \notin leads
    /\ Cardinality(leads) < MaxLeads
    /\ IF leads_insert_policy(jwt, row)
         THEN /\ leads' = leads \cup {row}
              /\ stmt' = [op |-> "insert", jwt |-> jwt, rows |-> {}, row |-> row, ok |-> TRUE]
         ELSE /\ leads' = leads
              /\ stmt' = [op |-> "insert", jwt |-> jwt, rows |-> {}, row |-> row, ok |-> FALSE]
    /\ UNCHANGED user_teams

(***************************************************************************)
(* Time. One unit is a millisecond; a local day has DayLen of them (scaled *)
(* from 86,400,000).                                                       *)
(***************************************************************************)
Times == 0..(MaxTime + 1)
NaN == -1

\* An ISO-8601 string for instant t, and the strings that are no date.
IsoTable == [t \in Times |-> ToString(t)]
Iso(t) == IsoTable[t]
\* new Date(s).getTime(): the instant an ISO string names, NaN for any other string
ParseDate(s) == IF \E t \in Times : Iso(t) = s THEN CHOOSE t \in Times : Iso(t) = s ELSE NaN

(***************************************************************************)
(* create-task edge function.                                              *)
(***************************************************************************)
\* public.applications (id -> tenant_id); no code of the repository writes it.
applications == [a \in {"a1", "a2"} |-> IF a = "a1" THEN "T1" ELSE "T2"]

VALID_TYPES == {"call", "email", "review"}

\* JSON bodies: a function from the keys present to their (string) values.
Body(app, type, due, ten) ==
    [k \in {f \in {"application_id", "task_type", "due_at", "tenant_id"} :
              CASE f = "application_id" -> app # NULL
                [] f = "task_type" -> type # NULL
                [] f = "due_at" -> due # NULL
                [] OTHER -> ten # NULL} |->
        CASE k = "application_id" -> app
          [] k = "task_type" -> type
          [] k = "due_at" -> due
          [] OTHER -> ten]
EmptyBody == [k \in {} |-> ""]

NoReq == [method |-> "none", json_ok |-> FALSE, body |-> EmptyBody, caller |-> NULL]
NoResp == [status |-> 0, error |-> "", task_id |-> 0]
NoFrame == [application_id |-> "", task_type |-> "", due_at |-> "", tenant_id |-> NULL]

\* Every request the model sends: POST with any mix of present, empty, valid and
\* invalid fields, by a principal of either tenant; a GET; a POST whose body is
\* not a JSON object.
AllBodies ==
    {Body(app, type, due, ten) :
        app \in {NULL, "", "a1", "a2", "a9"},
        type \in {NULL, "call", "email", "review", "sms"},
        due \in {NULL, "garbage"} \cup {Iso(t) : t \in Times},
        ten \in {NULL, "T2"}}
Requests ==
    [method : {"POST"}, json_ok : {TRUE}, body : AllBodies, caller : Tenants]
    \cup [method : {"GET"}, json_ok : {TRUE},
          body : {EmptyBody, Body("a1", "call", Iso(MaxTime + 1), NULL)}, caller : Tenants]
    \cup [method : {"POST"}, json_ok : {FALSE}, body : {EmptyBody}, caller : Tenants]

\* JavaScript !x for an optional string: undefined or "".
Falsy(body, k) == k \notin DOMAIN body \/ body[k] = ""

Response(code, msg) == [status |-> code, error |-> msg, task_id |-> 0]

\* Mutant: the date test is dueDate < now, so a due_at equal to now passes.
Validate_NotStrict(r, now) ==
    IF r.method # "POST" THEN Response(405, "Method not allowed")
    ELSE IF ~r.json_ok THEN Response(500, "Internal server error")
    ELSE IF Falsy(r.body, "application_id") \/ Falsy(r.body, "task_type")
            \/ Falsy(r.body, "due_at")
      THEN Response(400, "Missing required fields")
    ELSE IF r.body["task_type"] \notin VALID_TYPES
      THEN Response(400, "Invalid task_type")
    ELSE IF ParseDate(r.body["due_at"]) = NaN \/ ParseDate(r.body["due_at"]) < now
      THEN Response(400, "due_at must be a valid date in the future")
    ELSE NoResp

\* Lines 20-53: the checks made before the first database call. NoResp: all passed.
Validate(r, now) ==
    IF r.method # "POST" THEN Response(405, "Method not allowed")
    ELSE IF ~r.json_ok THEN Response(500, "Internal server error")
    ELSE IF Falsy(r.body, "application_id") \/ Falsy(r.body, "task_type")
            \/ Falsy(r.body, "due_at")
      THEN Response(400, "Missing required fields")
    ELSE IF r.body["task_type"] \notin VALID_TYPES
      THEN Response(400, "Invalid task_type")
    ELSE IF ParseDate(r.body["due_at"]) = NaN \/ ParseDate(r.body["due_at"]) <= now
      THEN Response(400, "due_at must be a valid date in the future")
    ELSE NoResp

\* Mutant: the row starts as "pending", the status the README's example shows.
NewTask_Pending(f) ==
    [tenant_id |-> f.tenant_id,
     application_id |-> f.application_id,
     type |-> f.task_type,
     due_at |-> ParseDate(f.due_at),
     status |-> "pending"]

\* The row the handler inserts (lines 73-79).
NewTask(f) ==
    [tenant_id |-> f.tenant_id,
     application_id |-> f.application_id,
     type |-> f.task_type,
     due_at |-> ParseDate(f.due_at),
     status |-> "open"]

\* A request arrives; the handler runs up to its first await on the database.
Receive(r) ==
    /\ pc = "idle"
    /\ req' = r
    /\ IF Validate(r, clock) # NoResp
         THEN /\ resp' = Validate(r, clock)
              /\ pc' = "done"
              /\ frame' = NoFrame
         ELSE /\ resp' = NoResp
              /\ pc' = "lookup"
              /\ frame' = [application_id |-> r.body["application_id"],
                           task_type |-> r.body["task_type"],
                           due_at |-> r.body["due_at"],
                           tenant_id |-> NULL]
    /\ UNCHANGED <<taskVars, clock>>

\* Mutant: the insert is issued before the lookup's result is tested, so an
\* unknown application leaves a row behind its 400.
Lookup_InsertFirst ==
    /\ pc = "lookup"
    /\ \/ /\ frame.application_id \in DOMAIN applications
          /\ frame' = [frame EXCEPT !.tenant_id = applications[frame.application_id]]
          /\ pc' = "insert"
          /\ resp' = resp
          /\ UNCHANGED taskVars
       \/ /\ resp' = Response(400, "Application not found")
          /\ pc' = "done"
          /\ frame' = NoFrame
          /\ tasks' = Append(tasks, NewTask(frame))
          /\ createdBy' = Append(createdBy, req.caller)
          /\ writes' = Append(writes, 0)
    /\ UNCHANGED <<req, clock>>

\* Lines 58-69: select tenant_id from applications where id = application_id, .single()
Lookup ==
    /\ pc = "lookup"
    /\ \/ /\ frame.application_id \in DOMAIN applications
          /\ frame' = [frame EXCEPT !.tenant_id = applications[frame.application_id]]
          /\ pc' = "insert"
          /\ resp' = resp
       \/ \* no such row, or the query failed: appError
          /\ resp' = Response(400, "Application not found")
          /\ pc' = "done"
          /\ frame' = NoFrame
    /\ UNCHANGED <<req, taskVars, clock>>

\* Mutant: the body is spread into the row, so its tenant_id wins.
Insert_BodyTenant ==
    /\ pc = "insert"
    /\ \/ /\ tasks' = Append(tasks,
                  [NewTask(frame) EXCEPT !.tenant_id =
                      IF "tenant_id" \in DOMAIN req.body THEN req.body["tenant_id"] ELSE @])
          /\ createdBy' = Append(createdBy, req.caller)
          /\ writes' = Append(writes, 0)
          /\ resp' = [status |-> 200, error |-> "", task_id |-> Len(tasks) + 1]
       \/ /\ resp' = Response(500, "Failed to create task")
          /\ UNCHANGED taskVars
    /\ pc' = "done"
    /\ frame' = NoFrame
    /\ UNCHANGED <<req, clock>>

\* Lines 71-95: insert into tasks ... returning *, .single()
Insert ==
    /\ pc = "insert"
    /\ \/ /\ tasks' = Append(tasks, NewTask(frame))
          /\ createdBy' = Append(createdBy, req.caller)
          /\ writes' = Append(writes, 0)
          /\ resp' = [status |-> 200, error |-> "", task_id |-> Len(tasks) + 1]
       \/ \* the insert failed
          /\ resp' = Response(500, "Failed to create task")
          /\ UNCHANGED taskVars
    /\ pc' = "done"
    /\ frame' = NoFrame
    /\ UNCHANGED <<req, clock>>

\* The response has been sent; the handler is ready for the next request.
Finish ==
    /\ pc = "done"
    /\ pc' = "idle"
    /\ req' = NoReq
    /\ resp' = NoResp
    /\ UNCHANGED <<frame, taskVars, clock>>

\* Time passes (sending the response and returning take none).
Tick ==
    /\ clock < MaxTime
    /\ pc # "done"
    /\ clock' = clock + 1
    /\ UNCHANGED <<taskVars, edgeVars>>

\* The requests of the lifecycle specification: well-formed POSTs, with a task
\* type inside or outside the closed set, for an application of either tenant.
LifeRequests ==
    [method : {"POST"}, json_ok : {TRUE},
     body : {Body(app, type, Iso(t), NULL) :
                app \in {"a1", "a2"}, type \in {"call", "sms"}, t \in Times},
     caller : {"T1"}]

(***************************************************************************)
(* Today dashboard: one mounted TodayDashboard component and its supabase  *)
(* calls. The component's `tasks` state holds the rows' ids.               *)
(***************************************************************************)
\* The signed-in user's tenant (the JWT sent with every supabase call).
principal == [tenant_id |-> "T1", role |-> "counselor", uid |-> "u1"]

\* new Date(now.setHours(0, 0, 0, 0)) and new Date(now.setHours(23, 59, 59, 999))
StartOfDay(t) == t - (t % DayLen)
EndOfDay(t) == StartOfDay(t) + (DayLen - 1)

Range(s) == {s[i] : i \in DOMAIN s}

\* A supabase call in flight. phase: "sent" (not yet at the database), "ok" or
\* "err" (answered, the await not yet resumed). at and revert are history: the
\* instant fetchTasks read the clock, and whether markComplete's catch issued it.
FetchCall(at, revert) ==
    [kind |-> "fetch", phase |-> "sent", id |-> 0, lo |-> StartOfDay(at),
     hi |-> EndOfDay(at), data |-> <<>>, at |-> at, revert |-> revert]
UpdateCall(id) ==
    [kind |-> "update", phase |-> "sent", id |-> id, lo |-> 0, hi |-> 0,
     data |-> <<>>, at |-> 0, revert |-> FALSE]

InFlight == BagCardinality(net)
Put(c) == net (+) SetToBag({c})
Take(c) == net (-) SetToBag({c})

\* .neq("status", "completed").gte("due_at", lo).lte("due_at", hi)
Matches(lo, hi) ==
    {i \in DOMAIN tasks :
        /\ tasks[i].status # "completed"
        /\ tasks[i].due_at >= lo
        /\ tasks[i].due_at <= hi}

\* .order("due_at", { ascending: true }): every order of S ascending by due_at
\* (rows with equal due_at come in any order).
Ordered(S) ==
    {s \in [1..Cardinality(S) -> S] :
        /\ \A i, j \in 1..Cardinality(S) : i # j => s[i] # s[j]
        /\ \A i, j \in 1..Cardinality(S) : i < j => tasks[s[i]].due_at <= tasks[s[j]].due_at}

\* fetchTasks up to its await (lines 18-33)
StartFetch(revert) ==
    /\ loading' = TRUE
    /\ error' = FALSE
    /\ UNCHANGED shown

\* useEffect(() => { fetchTasks(); }, [])
Mount ==
    /\ ~mounted
    /\ mounted' = TRUE
    /\ StartFetch(FALSE)
    /\ net' = Put(FetchCall(clock, FALSE))
    /\ UNCHANGED <<reverted, taskVars, clock>>

\* The database answers a select on tasks.
StoreQuery(c) ==
    /\ BagIn(c, net) /\ c.kind = "fetch" /\ c.phase = "sent"
    /\ \/ \E s \in Ordered(Matches(c.lo, c.hi)) :
             net' = Take(c) (+) SetToBag({[c EXCEPT !.phase = "ok", !.data = s]})
       \/ net' = Take(c) (+) SetToBag({[c EXCEPT !.phase = "err"]})
    /\ UNCHANGED <<mounted, shown, loading, error, reverted, taskVars, clock>>

\* fetchTasks after its await (lines 35-43)
FetchDone(c) ==
    /\ BagIn(c, net) /\ c.kind = "fetch" /\ c.phase \in {"ok", "err"}
    /\ net' = Take(c)
    /\ IF c.phase = "ok"
         THEN /\ shown' = c.data
              /\ error' = error
              /\ reverted' = (reverted \/ c.revert)
         ELSE /\ error' = TRUE
              /\ UNCHANGED <<shown, reverted>>
    /\ loading' = FALSE
    /\ UNCHANGED <<mounted, taskVars, clock>>

\* The "Mark Complete" button of a rendered row: markComplete up to its await
\* (lines 46-54). The table is rendered only when neither loading nor error.
MarkComplete(id) ==
    /\ mounted /\ ~loading /\ ~error
    /\ id \in Range(shown)
    /\ shown' = SelectSeq(shown, LAMBDA t : t # id)
    /\ net' = Put(UpdateCall(id))
    /\ UNCHANGED <<mounted, loading, error, reverted, taskVars, clock>>

\* The database runs update tasks set status = 'completed' where id = c.id.
StoreUpdate(c) ==
    /\ BagIn(c, net) /\ c.kind = "update" /\ c.phase = "sent"
    /\ \/ /\ tasks' = [tasks EXCEPT ![c.id].status = "completed"]
          /\ writes' = [writes EXCEPT ![c.id] = IF @ < MaxWrites THEN @ + 1 ELSE @]
          /\ net' = Take(c) (+) SetToBag({[c EXCEPT !.phase = "ok"]})
          /\ UNCHANGED createdBy
       \/ \* the call failed
          /\ net' = Take(c) (+) SetToBag({[c EXCEPT !.phase = "err"]})
          /\ UNCHANGED taskVars
    /\ UNCHANGED <<mounted, shown, loading, error, reverted, clock>>

\* markComplete after its await (lines 56-64)
UpdateDone(c) ==
    /\ BagIn(c, net) /\ c.kind = "update" /\ c.phase \in {"ok", "err"}
    /\ IF c.phase = "ok"
         THEN /\ net' = Take(c)
              /\ UNCHANGED <<shown, loading, error>>
         ELSE \* alert("Failed to update task"); fetchTasks()
              /\ StartFetch(TRUE)
              /\ net' = Take(c) (+) SetToBag({FetchCall(clock, TRUE)})
    /\ UNCHANGED <<mounted, reverted, taskVars, clock>>

Calls == BagToSet(net)

InitLeads ==
    /\ leads = {}
    /\ user_teams \in SUBSET Memberships
    /\ stmt = NoStmt

InitTasks ==
    /\ tasks = <<>>
    /\ createdBy = <<>>
    /\ writes = <<>>
    /\ clock = 0

InitEdge ==
    /\ pc = "idle"
    /\ frame = NoFrame
    /\ req = NoReq
    /\ resp = NoResp

InitDash ==
    /\ shown = <<>>
    /\ loading = TRUE
    /\ error = FALSE
    /\ net = EmptyBag
    /\ mounted = FALSE
    /\ reverted = FALSE

Init == InitLeads /\ InitTasks /\ InitEdge /\ InitDash

NextPolicy ==
    \/ \E jwt \in Sessions : SelectLeads(jwt) /\ UNCHANGED <<taskVars, clock, edgeVars, dashVars>>
    \/ \E jwt \in Sessions, row \in LeadRows :
          InsertLead(jwt, row) /\ UNCHANGED <<taskVars, clock, edgeVars, dashVars>>

SpecPolicy == Init /\ [][NextPolicy]_vars

NextCreate ==
    \/ /\ pc = "idle" /\ Len(tasks) < MaxTasks
       /\ \E r \in Requests : Receive(r) /\ UNCHANGED <<leadVars, dashVars>>
    \/ Lookup /\ UNCHANGED <<leadVars, dashVars>>
    \/ Insert /\ UNCHANGED <<leadVars, dashVars>>
    \/ Finish /\ UNCHANGED <<leadVars, dashVars>>
    \/ Tick /\ UNCHANGED <<leadVars, dashVars>>

\* The tasks side alone: the leads tables stay empty.
InitCreate == Init /\ user_teams = {}

SpecCreate == InitCreate /\ [][NextCreate]_vars

Next ==
    \/ /\ pc = "idle" /\ Len(tasks) < MaxTasks
       /\ \E r \in LifeRequests : Receive(r) /\ UNCHANGED <<leadVars, dashVars>>
    \/ Lookup /\ UNCHANGED <<leadVars, dashVars>>
    \/ Insert /\ UNCHANGED <<leadVars, dashVars>>
    \/ Finish /\ UNCHANGED <<leadVars, dashVars>>
    \/ Tick /\ UNCHANGED <<leadVars, dashVars>>
    \/ Mount /\ UNCHANGED <<leadVars, edgeVars>>
    \/ \E c \in Calls : StoreQuery(c) /\ UNCHANGED <<leadVars, edgeVars>>
    \/ \E c \in Calls : FetchDone(c) /\ UNCHANGED <<leadVars, edgeVars>>
    \/ /\ InFlight < MaxInflight
       /\ \E id \in Range(shown) : MarkComplete(id) /\ UNCHANGED <<leadVars, edgeVars>>
    \/ \E c \in Calls : StoreUpdate(c) /\ UNCHANGED <<leadVars, edgeVars>>
    \/ \E c \in Calls : UpdateDone(c) /\ UNCHANGED <<leadVars, edgeVars>>

Spec == InitCreate /\ [][Next]_vars

\* The dashboard alone, on a table of DashTasks open rows created earlier, at
\* any instant of the clock; nothing else writes the table and no time passes.
DashRows ==
    [tenant_id : {"T1"}, application_id : {"a1"}, type : {"call"},
     due_at : 1..(MaxTime + 1), status : {"open"}]
    \cup [tenant_id : {"T2"}, application_id : {"a2"}, type : {"call"},
          due_at : 1..(MaxTime + 1), status : {"open"}]

InitDashOnly ==
    /\ InitLeads /\ user_teams = {}
    /\ InitEdge /\ InitDash
    /\ tasks \in [1..DashTasks -> DashRows]
    /\ createdBy = [i \in 1..DashTasks |-> tasks[i].tenant_id]
    /\ writes = [i \in 1..DashTasks |-> 0]
    /\ clock \in 0..MaxTime

NextDashOnly ==
    \/ Mount /\ UNCHANGED <<leadVars, edgeVars>>
    \/ \E c \in Calls : StoreQuery(c) /\ UNCHANGED <<leadVars, edgeVars>>
    \/ \E c \in Calls : FetchDone(c) /\ UNCHANGED <<leadVars, edgeVars>>
    \/ /\ InFlight < DashInflight
       /\ \E id \in Range(shown) : MarkComplete(id) /\ UNCHANGED <<leadVars, edgeVars>>
    \/ \E c \in Calls : StoreUpdate(c) /\ UNCHANGED <<leadVars, edgeVars>>
    \/ \E c \in Calls : UpdateDone(c) /\ UNCHANGED <<leadVars, edgeVars>>

SpecDash == InitDashOnly /\ [][NextDashOnly]_vars

(***************************************************************************)
(* Claims on the leads policies.                                           *)
(***************************************************************************)
\* TeamMembershipsOf(user): the teams user_teams relates the user to.
MembershipsOf(u) == {ut.team_id : ut \in {m \in user_teams : m.user_id = u}}

\* C1: a lead of another tenant is never returned by a select and never admitted
\* by an insert, whatever the session's role, the lead's owner or its team.
C1_TenantIsolation ==
    /\ stmt.op = "select" =>
          \A r \in leads : r.tenant_id # stmt.jwt.tenant_id => r \notin stmt.rows
    /\ stmt.op = "insert" =>
          (stmt.row.tenant_id # stmt.jwt.tenant_id => ~stmt.ok /\ stmt.row \notin leads)

\* An admin who owns a lead of another tenant and is in its team selects, and
\* does not get it.
C1_Witness ==
    /\ stmt.op = "select"
    /\ stmt.jwt.role = "admin"
    /\ \E r \in leads :
          /\ r.tenant_id # stmt.jwt.tenant_id
          /\ r.owner_id = stmt.jwt.uid
          /\ r.team_id \in MembershipsOf(stmt.jwt.uid)
          /\ r \notin stmt.rows

\* C2: a select returns a lead exactly when the tenant matches and the session is
\* an admin, or owns the lead, or the lead has a team the user is a member of.
C2_ReadDecision ==
    stmt.op = "select" =>
        \A r \in leads :
            r \in stmt.rows <=>
                /\ r.tenant_id = stmt.jwt.tenant_id
                /\ \/ stmt.jwt.role = "admin"
                   \/ r.owner_id = stmt.jwt.uid
                   \/ (r.team_id # NULL /\ r.team_id \in MembershipsOf(stmt.jwt.uid))

\* A counselor with memberships, same tenant, not the owner, is refused a lead
\* whose team_id is null.
C2_Witness ==
    /\ stmt.op = "select"
    /\ stmt.jwt.role = "counselor"
    /\ MembershipsOf(stmt.jwt.uid) # {}
    /\ \E r \in leads :
          /\ r.tenant_id = stmt.jwt.tenant_id
          /\ r.owner_id # stmt.jwt.uid
          /\ r.team_id = NULL
          /\ r \notin stmt.rows

(***************************************************************************)
(* Claims on the create-task edge function (SpecCreate).                   *)
(***************************************************************************)
\* C3: every task in the store was created by a caller whose tenant is the
\* task's tenant_id (a caller of another tenant is refused, nothing persisted).
C3_CallerTenant ==
    \A i \in DOMAIN tasks : createdBy[i] = tasks[i].tenant_id

\* The rejection the spec calls InvalidArgument: a 400 from one of the
\* validation checks (the 400 "Application not found" is its NotFound).
ValidationErrors ==
    {"Missing required fields", "Invalid task_type",
     "due_at must be a valid date in the future"}
InvalidArgument(r) == r.status = 400 /\ r.error \in ValidationErrors

\* The claim's condition; a field sent as the empty string counts as missing.
Missing(body, k) == k \notin DOMAIN body \/ body[k] = ""
ShouldReject(r, now) ==
    \/ Missing(r.body, "application_id")
    \/ Missing(r.body, "task_type")
    \/ Missing(r.body, "due_at")
    \/ r.body["task_type"] \notin {"call", "email", "review"}
    \/ ParseDate(r.body["due_at"]) = NaN
    \/ ParseDate(r.body["due_at"]) <= now

C4_AtReceive ==
    (pc = "idle" /\ pc' # "idle" /\ req'.method = "POST" /\ req'.json_ok) =>
        /\ InvalidArgument(resp') <=> ShouldReject(req', clock)
        /\ resp'.status = 400 <=> ShouldReject(req', clock)
        /\ pc' = "lookup" <=> ~ShouldReject(req', clock)
C4_Later == pc \in {"lookup", "insert"} => ~InvalidArgument(resp')

\* C4: a POST with a JSON body is rejected with InvalidArgument exactly when a
\* required field is missing, task_type is outside {call, email, review}, due_at
\* does not parse, or due_at <= now when the handler evaluates it; the rejection
\* is immediate, and no later step of the handler answers InvalidArgument.
C4_Validation == [][C4_AtReceive /\ C4_Later]_vars

\* A request complete but for a due_at equal to now has been rejected.
C4_Witness ==
    /\ pc = "done"
    /\ req.method = "POST" /\ req.json_ok
    /\ ~Missing(req.body, "application_id")
    /\ ~Missing(req.body, "task_type") /\ req.body["task_type"] \in VALID_TYPES
    /\ ~Missing(req.body, "due_at") /\ ParseDate(req.body["due_at"]) = clock
    /\ InvalidArgument(resp)

C5_NoWrite == (resp' # resp /\ resp'.status \in {400, 405}) => tasks' = tasks
C5_ToLookup ==
    (pc' = "lookup" /\ pc # "lookup") =>
        (pc = "idle" /\ req'.method = "POST" /\ req'.json_ok /\ ~ShouldReject(req', clock))
C5_ToInsert ==
    (pc' = "insert" /\ pc # "insert") =>
        (pc = "lookup" /\ frame.application_id \in DOMAIN applications)
C5_InsertOnly == tasks' # tasks => pc = "insert"

\* C5: a request answered 405 or 400 leaves the tasks table as it was, and the
\* insert is reached only by a POST that passed every validation check and
\* whose application exists.
C5_FailFast == [][C5_NoWrite /\ C5_ToLookup /\ C5_ToInsert /\ C5_InsertOnly]_vars

\* An unknown application has been answered 400 and the table is unchanged.
C5_Witness ==
    /\ pc = "done"
    /\ resp.status = 400 /\ resp.error = "Application not found"
    /\ req.body["application_id"] \notin DOMAIN applications
    /\ tasks = <<>>

\* C6: every stored task has the tenant_id of the application it names,
\* whatever tenant_id the request body carried.
C6_TenantDerived ==
    \A i \in DOMAIN tasks :
        /\ tasks[i].application_id \in DOMAIN applications
        /\ tasks[i].tenant_id = applications[tasks[i].application_id]

\* A body carrying another tenant's id has been served, and the row has the
\* application's tenant.
C6_Witness ==
    /\ pc = "done" /\ resp.status = 200
    /\ "tenant_id" \in DOMAIN req.body
    /\ req.body["tenant_id"] # applications[req.body["application_id"]]
    /\ tasks[resp.task_id].tenant_id = applications[req.body["application_id"]]

(***************************************************************************)
(* Claims on the task lifecycle and the dashboard (Spec, SpecDash).        *)
(***************************************************************************)
\* C7: however completions of one task are repeated or interleaved, only one
\* of them writes the row; a completion of a completed task writes nothing.
C7_SingleWrite ==
    \A i \in DOMAIN tasks : writes[i] <= 1

DueToday(as_of) ==
    {i \in DOMAIN tasks :
        /\ tasks[i].tenant_id = principal.tenant_id
        /\ tasks[i].status # "completed"
        /\ as_of - (as_of % DayLen) <= tasks[i].due_at
        /\ tasks[i].due_at <= as_of - (as_of % DayLen) + DayLen - 1}
Ascending(s) == \A i, j \in DOMAIN s : i < j => tasks[s[i]].due_at <= tasks[s[j]].due_at
Answered(c) == c.kind = "fetch" /\ c.phase = "ok" /\ BagIn(c, net') /\ ~BagIn(c, net)
C8_Answer ==
    \A c \in BagToSet(net') :
        Answered(c) =>
            /\ Range(c.data) = DueToday(c.at)
            /\ Len(c.data) = Cardinality(DueToday(c.at))
            /\ Ascending(c.data)

\* C8: the select of fetchTasks returns exactly the tasks of the principal's
\* tenant that are not completed and due within the day of as_of, both ends
\* included, in ascending due_at order.
C8_ListDueToday == [][C8_Answer]_vars

\* The same with the tenant left out of the expected set: what the select does.
DueTodayAnyTenant(as_of) ==
    {i \in DOMAIN tasks :
        /\ tasks[i].status # "completed"
        /\ as_of - (as_of % DayLen) <= tasks[i].due_at
        /\ tasks[i].due_at <= as_of - (as_of % DayLen) + DayLen - 1}
FetchAnyTenant_Answer ==
    \A c \in BagToSet(net') :
        Answered(c) =>
            /\ Range(c.data) = DueTodayAnyTenant(c.at)
            /\ Len(c.data) = Cardinality(DueTodayAnyTenant(c.at))
            /\ Ascending(c.data)
FetchAnyTenant == [][FetchAnyTenant_Answer]_vars

C9_Step ==
    /\ Len(tasks') >= Len(tasks)
    /\ \A i \in DOMAIN tasks :
          /\ tasks'[i] = tasks[i] \/ tasks'[i] = [tasks[i] EXCEPT !.status = "completed"]
          /\ tasks[i].status = "completed" => tasks'[i].status = "completed"
    /\ \A i \in DOMAIN tasks' \ DOMAIN tasks : tasks'[i].status = "open"

C10_RevertShowsStore ==
    (mounted /\ reverted /\ net = EmptyBag /\ ~loading /\ ~error) =>
        Range(shown) = Matches(StartOfDay(clock), EndOfDay(clock))
====
